---- MODULE Spec2Model ----
(***************************************************************************)
(* Model of the read-only Excel tools: the engine of                       *)
(* src/excel_read_mcp/core.py (ExcelReadTools, CellInfo) and the dispatch  *)
(* of src/excel_read_mcp/server.py (call_tool).                            *)
(*                                                                         *)
(* Python strings that the code inspects (cell text, search terms, file    *)
(* suffixes, addresses) are sequences of one-character strings; strings    *)
(* the code only passes around (sheet names, column labels, messages) are  *)
(* TLA+ strings.                                                           *)
(***************************************************************************)
EXTENDS Integers, Sequences, FiniteSets, TLC

VARIABLES
    wb,        \* the workbook stored in the file the request may name
    req,       \* the last request: operation and arguments
    res,       \* what the last operation returned
    opened,    \* sequence of the workbook/file objects the last operation opened
    live,      \* the objects among them that are still open when it returns
    normIn,    \* the value last given to _convert_datetime_to_string
    normOut,   \* its outcome
    cellNew,   \* the CellInfo constructed last
    cellOld    \* the CellInfo constructed before it

vars == <<wb, req, res, opened, live, normIn, normOut, cellNew, cellOld>>

---------------------------------------------------------------------------
(* Bounds of the model *)

MaxSheets == 2
MaxRows == 2
MaxCols == 2
MaxAddrRow == 10
MaxAddrCol == 3
MaxFill == 1

---------------------------------------------------------------------------
(* Character strings *)

Digits == <<"0", "1", "2", "3", "4", "5", "6", "7", "8", "9">>

Upper == <<"A", "B", "C", "D", "E", "F", "G", "H", "I", "J", "K", "L", "M",
           "N", "O", "P", "Q", "R", "S", "T", "U", "V", "W", "X", "Y", "Z">>

LowerLetters == <<"a", "b", "c", "d", "e", "f", "g", "h", "i", "j", "k", "l", "m",
                  "n", "o", "p", "q", "r", "s", "t", "u", "v", "w", "x", "y", "z">>

Range(s) == {s[i] : i \in 1..Len(s)}

\* str.lower() on one character
LowerChar(c) ==
    IF \E i \in 1..26 : Upper[i] = c
    THEN LowerLetters[CHOOSE i \in 1..26 : Upper[i] = c]
    ELSE c

\* str.lower()
Lower(s) == [i \in 1..Len(s) |-> LowerChar(s[i])]

\* Python's `t in s` on strings
Contains(s, t) ==
    \E i \in 0..(Len(s) - Len(t)) : \A k \in 1..Len(t) : s[i + k] = t[k]

\* str(n) for an integer n >= 0
RECURSIVE Dec(_)
Dec(n) == IF n < 10 THEN <<Digits[n + 1]>> ELSE Dec(n \div 10) \o <<Digits[(n % 10) + 1]>>

\* the zero-padded field of width w that %Y, %m, %d, %H, %M, %S and isoformat print
RECURSIVE Pad(_, _)
Pad(n, w) == IF w = 0 THEN <<>> ELSE Pad(n \div 10, w - 1) \o <<Digits[(n % 10) + 1]>>

---------------------------------------------------------------------------
(* Cell values, as pandas hands them to the engine *)

NaN == [k |-> "nan"]
NaT == [k |-> "nat"]
PyNone == [k |-> "none"]
Text(s) == [k |-> "str", s |-> s]
IntVal(n) == [k |-> "int", n |-> n]
\* datetime.datetime / pd.Timestamp
DateTime(y, mo, d, h, mi, s, us) ==
    [k |-> "datetime", y |-> y, mo |-> mo, d |-> d, h |-> h, mi |-> mi, s |-> s, us |-> us]
\* datetime.time: strftime but no date() method
TimeOfDay(h, mi, s) == [k |-> "time", h |-> h, mi |-> mi, s |-> s]
\* an object with a callable date attribute; strftime present or not
DateLike(y, mo, d, hasStrftime) ==
    [k |-> "datelike", y |-> y, mo |-> mo, d |-> d, h |-> 0, mi |-> 0, s |-> 0,
     strftime |-> hasStrftime]
\* a list of two elements: pd.isna gives an array whose truth value is ambiguous
PyList == [k |-> "list"]

\* value.strftime("%Y-%m-%d %H:%M:%S")
Strftime(v) ==
    Pad(v.y, 4) \o <<"-">> \o Pad(v.mo, 2) \o <<"-">> \o Pad(v.d, 2) \o <<" ">>
    \o Pad(v.h, 2) \o <<":">> \o Pad(v.mi, 2) \o <<":">> \o Pad(v.s, 2)

\* str(value)
Str(v) ==
    CASE v.k = "nan" -> <<"n", "a", "n">>
      [] v.k = "nat" -> <<"N", "a", "T">>
      [] v.k = "none" -> <<"N", "o", "n", "e">>
      [] v.k = "str" -> v.s
      [] v.k = "int" -> Dec(v.n)
      [] v.k = "datetime" ->
            Strftime(v) \o (IF v.us = 0 THEN <<>> ELSE <<".">> \o Pad(v.us, 6))
      [] v.k = "time" -> Pad(v.h, 2) \o <<":">> \o Pad(v.mi, 2) \o <<":">> \o Pad(v.s, 2)
      [] v.k = "datelike" -> <<"<", "o", "b", "j", ">">>
      [] v.k = "list" -> <<"[", "1", ",", " ", "2", "]">>

\* pd.isna(value) / not pd.notna(value), for a scalar
IsNA(v) == v.k \in {"nan", "nat", "none"}

---------------------------------------------------------------------------
(* ExcelReadTools._convert_datetime_to_string *)

Returned(s) == [raised |-> FALSE, ret |-> s]
Raised == [raised |-> TRUE, ret |-> <<>>]

\* isinstance(value, (datetime, pd.Timestamp)); NaT is an instance of datetime
IsDatetimeInstance(v) == v.k \in {"datetime", "nat"}

\* hasattr(value, "date") and callable(getattr(value, "date"))
HasCallableDate(v) == v.k \in {"datetime", "nat", "datelike"}

\* value.strftime(...): raises for NaT and for an object without strftime
StrftimeCall(v) ==
    IF v.k = "nat" \/ (v.k = "datelike" /\ ~v.strftime) THEN Raised
    ELSE Returned(Strftime(v))

\* `value is None or pd.isna(value)` used as a condition: raises for a list
NullTestRaises(v) == v.k = "list"

\* the except branch: str(value) if value is not None else ""
ConvertFallback(v) == Returned(IF v.k # "none" THEN Str(v) ELSE <<>>)

\* the try body with the isinstance test first
ConvertBodyDatetimeFirst(v) ==
    IF IsDatetimeInstance(v) THEN StrftimeCall(v)
    ELSE IF NullTestRaises(v) THEN Raised
    ELSE IF IsNA(v) THEN Returned(<<>>)
    ELSE IF HasCallableDate(v) THEN StrftimeCall(v)
    ELSE Returned(Str(v))

\* the try body
ConvertBody(v) ==
    IF v.k = "none" THEN Returned(<<>>)
    ELSE IF NullTestRaises(v) THEN Raised
    ELSE IF IsNA(v) THEN Returned(<<>>)
    ELSE IF IsDatetimeInstance(v) THEN StrftimeCall(v)
    ELSE IF HasCallableDate(v) THEN StrftimeCall(v)
    ELSE Returned(Str(v))

ConvertOutcome(v) == IF ConvertBody(v).raised THEN ConvertFallback(v) ELSE ConvertBody(v)

\* the string the method returns (it has no raising path)
Normalize(v) == ConvertOutcome(v).ret

---------------------------------------------------------------------------
(* CellInfo *)

MaxColumnIndex == 18278

\* the loop without the borrow taken when the remainder is 0
RECURSIVE ColumnLettersNoBorrow(_)
ColumnLettersNoBorrow(col) ==
    IF col <= 0 THEN <<>>
    ELSE LET r == col % 26
             rem == IF r = 0 THEN 26 ELSE r
         IN ColumnLettersNoBorrow(col \div 26) \o <<Upper[rem]>>

\* the divmod loop of openpyxl.utils.get_column_letter, most significant letter first
RECURSIVE ColumnLetters(_)
ColumnLetters(col) ==
    IF col <= 0 THEN <<>>
    ELSE LET r == col % 26
             rem == IF r = 0 THEN 26 ELSE r
             rest == IF r = 0 THEN (col \div 26) - 1 ELSE col \div 26
         IN ColumnLetters(rest) \o <<Upper[rem]>>

\* get_column_letter(column): ValueError outside 1..18278
get_column_letter(col) ==
    IF col < 1 \/ col > MaxColumnIndex THEN Raised ELSE Returned(ColumnLetters(col))

\* CellInfo(row, column, value, sheet_name, address) with __post_init__
CellInfo(row, column, value, sheet_name, address) ==
    LET letter == get_column_letter(column)
        fields == [raised |-> FALSE, row |-> row, column |-> column, value |-> value,
                   sheet_name |-> sheet_name, address |-> address, given |-> address]
    IN IF address # <<>> THEN fields
       ELSE IF letter.raised THEN [fields EXCEPT !.raised = TRUE]
       ELSE [fields EXCEPT !.address = letter.ret \o Dec(row)]

---------------------------------------------------------------------------
(* The file system and the workbook file *)

\* names of the sheets of a workbook, in declaration order
SheetNamePool == <<"Sheet1", "Sheet2", "Sheet3", "Sheet4">>

\* header cells of a sheet, left to right
ColumnPool == <<"Name", "Age", "When", "Note">>

\* values found in data cells
CellPool == <<Text(<<"A", "b">>), NaN, DateTime(2024, 1, 5, 10, 0, 0, 500000),
              IntVal(30), Text(<<"a", "B", "C", "1">>), DateTime(2024, 1, 5, 10, 0, 0, 0)>>

\* Python's None, where an optional string argument is omitted
None == "<None>"

\* what can be wrong with the file: nothing; the container cannot be opened;
\* the XML of sheet `sheet` cannot be parsed; converting the table of sheet
\* `sheet` raises (applymap)
Faults(n) ==
    {[kind |-> "none", sheet |-> 0], [kind |-> "corrupt", sheet |-> 0]}
    \cup {[kind |-> kd, sheet |-> k] : kd \in {"parse", "convert"}, k \in 1..n}

\* the workbooks tried: 1..MaxSheets sheets of up to MaxRows data rows (the
\* sheets after the first have the same number of rows), 1 or MaxCols columns
Workbooks ==
    UNION {{[nsheets |-> n, nrows |-> [k \in 1..n |-> IF k = 1 THEN a ELSE b],
             ncols |-> nc, fill |-> f, fault |-> ft] :
                a \in 0..MaxRows, b \in IF n = 1 THEN {0} ELSE 0..MaxRows,
                nc \in {1, MaxCols}, f \in 0..MaxFill, ft \in Faults(n)} :
           n \in 1..MaxSheets}

\* workbook.sheetnames / ExcelFile.sheet_names
SheetNames(w) == [k \in 1..w.nsheets |-> SheetNamePool[k]]

\* the raw value of data row i (0-based), column j (0-based) of sheet k
RawCell(w, k, i, j) == CellPool[((w.fill + k + 2 * i + j) % Len(CellPool)) + 1]

\* the DataFrame pandas builds for sheet k: first row as header, the rest as data
Frame(w, k) ==
    [columns |-> [j \in 1..w.ncols |-> ColumnPool[j]],
     rows |-> [i \in 1..w.nrows[k] |-> [j \in 1..w.ncols |-> RawCell(w, k, i - 1, j - 1)]],
     convertRaises |-> (w.fault.kind = "convert" /\ w.fault.sheet = k)]

\* the paths a request may give
Paths ==
    {[abs |-> a, exists |-> e, suffix |-> sfx] :
        a \in BOOLEAN, e \in BOOLEAN,
        sfx \in {<<".", "x", "l", "s", "x">>, <<".", "X", "L", "S", "M">>,
                 <<".", "c", "s", "v">>}}

---------------------------------------------------------------------------
(* Exceptions and envelopes *)

\* an exception whose str() is msg followed by the formatted detail
Exc(msg, detail) == [msg |-> msg, detail |-> detail]

Ok(v) == [raised |-> FALSE, val |-> v]
Fail(msg, detail) == [raised |-> TRUE, exc |-> Exc(msg, detail)]

\* {"success": True, "data": ...}
Success(data) == [success |-> TRUE, data |-> data]
\* the except branch that also fills in an empty data key
FailureWithData(exc) == [success |-> FALSE, error |-> exc, data |-> None]

\* {"success": False, "error": str(exc)}
Failure(exc) == [success |-> FALSE, error |-> exc]

\* a value computed once and then used under a name, as a local variable is
With(v, F(_)) == CHOOSE r \in {F(x) : x \in {v}} : TRUE

\* what an operation hands back: its return value or the exception that
\* leaves it, the objects it opened, and those still open
Out(result, opened_, live_) ==
    [raised |-> FALSE, result |-> result, opened |-> opened_, live |-> live_]

---------------------------------------------------------------------------
(* ExcelReadTools._validate_file *)

supported_formats == {<<".", "x", "l", "s", "x">>, <<".", "x", "l", "s">>,
                      <<".", "x", "l", "s", "m">>}

\* the extension test before the existence test
ValidateSuffixFirst(path) ==
    IF ~path.abs THEN Fail("Please provide an absolute path to the Excel file.", "")
    ELSE IF Lower(path.suffix) \notin supported_formats
    THEN Fail("Unsupported file format: ", path.suffix)
    ELSE IF ~path.exists THEN Fail("File not found: ", path)
    ELSE Ok(path)

_validate_file(path) ==
    IF ~path.abs THEN Fail("Please provide an absolute path to the Excel file.", "")
    ELSE IF ~path.exists THEN Fail("File not found: ", path)
    ELSE IF Lower(path.suffix) \notin supported_formats
    THEN Fail("Unsupported file format: ", path.suffix)
    ELSE Ok(path)

---------------------------------------------------------------------------
(* The libraries, as the engine calls them *)

\* openpyxl.load_workbook(path, read_only=True): the archive stays open until close()
load_workbook(w) ==
    IF w.fault.kind = "corrupt" THEN Fail("File is not a zip file", "") ELSE Ok(w)

\* pd.ExcelFile(path): same, until ExcelFile.close()
ExcelFile(w) ==
    IF w.fault.kind = "corrupt" THEN Fail("File is not a zip file", "")
    ELSE Ok(SheetNames(w))

\* parsing sheet k of an open file
ParseSheet(w, k) ==
    IF w.fault.kind = "parse" /\ w.fault.sheet = k
    THEN Fail("Unable to read worksheet ", SheetNamePool[k])
    ELSE Ok(Frame(w, k))

\* pd.read_excel(path, sheet_name=name): with None every sheet, as a dict in
\* workbook order (here: the sequence of <<name, frame>>); with a string that
\* sheet alone. The file it opens is closed again before it returns or raises.
read_excel(w, name) ==
    IF w.fault.kind = "corrupt" THEN Fail("File is not a zip file", "")
    ELSE IF name = None
    THEN IF \E k \in 1..w.nsheets : ParseSheet(w, k).raised
         THEN ParseSheet(w, CHOOSE k \in 1..w.nsheets :
                    ParseSheet(w, k).raised
                    /\ \A h \in 1..(k - 1) : ~ParseSheet(w, h).raised)
         ELSE Ok([isDict |-> TRUE,
                  items |-> [k \in 1..w.nsheets |->
                                <<SheetNamePool[k], ParseSheet(w, k).val>>]])
    ELSE IF ~\E k \in 1..w.nsheets : SheetNamePool[k] = name
    THEN Fail("Worksheet named not found: ", name)
    ELSE LET k == CHOOSE k \in 1..w.nsheets : SheetNamePool[k] = name
         IN IF ParseSheet(w, k).raised THEN ParseSheet(w, k)
            ELSE Ok([isDict |-> FALSE, frame |-> ParseSheet(w, k).val])

\* empty only when there are no columns
EmptyByColumns(df) == Len(df.columns) = 0

\* DataFrame.empty
Empty(df) == Len(df.rows) = 0 \/ Len(df.columns) = 0

\* DataFrame.head(n): the first n rows; for n < 0 all but the last -n
DfHead(df, n) ==
    LET keep == IF n >= 0 THEN (IF n < Len(df.rows) THEN n ELSE Len(df.rows))
                ELSE (IF Len(df.rows) + n > 0 THEN Len(df.rows) + n ELSE 0)
    IN [df EXCEPT !.rows = SubSeq(df.rows, 1, keep)]

\* DataFrame.to_dict("records")
ToRecords(df) ==
    [i \in 1..Len(df.rows) |->
        [c \in Range(df.columns) |->
            df.rows[i][CHOOSE j \in 1..Len(df.columns) : df.columns[j] = c]]]

\* ExcelReadTools._convert_dataframe: on a dict, df.empty is an AttributeError
_convert_dataframe(t) ==
    IF t.isDict THEN Fail("'dict' object has no attribute 'empty'", "")
    ELSE IF Empty(t.frame) THEN Ok(t.frame)
    ELSE IF t.frame.convertRaises THEN Fail("conversion failed", "")
    ELSE Ok([t.frame EXCEPT !.rows =
                [i \in 1..Len(t.frame.rows) |->
                    [j \in 1..Len(t.frame.columns) |->
                        Normalize(t.frame.rows[i][j])]]])

\* a DataFrame as read_excel returns it for one sheet
AsFrame(df) == [isDict |-> FALSE, frame |-> df]

\* `if sheet_name is not None:`
NotNone(x) == x # None

\* `if sheet_name:` on an optional string
Truthy(x) == x # None /\ x # ""

---------------------------------------------------------------------------
(* ExcelReadTools.excel_read_info *)

excel_read_info(w, file_path, statFails) ==
    LET path == _validate_file(file_path)
        workbook == load_workbook(w)
    IN IF path.raised THEN Out(Failure(path.exc), <<>>, <<>>)
       ELSE IF workbook.raised THEN Out(Failure(workbook.exc), <<"load_workbook">>, <<>>)
       ELSE IF statFails
       THEN Out(Failure(Exc("No such file or directory: ", file_path)),
                <<"load_workbook">>, <<"load_workbook">>)
       ELSE Out(Success([file_path |-> file_path,
                         file_size |-> "st_size",
                         sheet_count |-> Len(SheetNames(w)),
                         sheet_names |-> SheetNames(w)]),
                <<"load_workbook">>, <<>>)

---------------------------------------------------------------------------
(* ExcelReadTools.excel_read_range *)

excel_read_range(w, file_path, sheet_name, range_spec) ==
    With(_validate_file(file_path), LAMBDA path :
    IF path.raised THEN Out(Failure(path.exc), <<>>, <<>>)
    ELSE With(read_excel(w, sheet_name), LAMBDA df :
    IF df.raised THEN Out(Failure(df.exc), <<"read_excel">>, <<>>)
    ELSE With(_convert_dataframe(df.val), LAMBDA converted :
    IF converted.raised THEN Out(Failure(converted.exc), <<"read_excel">>, <<>>)
    ELSE Out(Success([sheet_name |-> IF Truthy(sheet_name) THEN sheet_name ELSE "Sheet1",
                      shape |-> <<Len(converted.val.rows), Len(converted.val.columns)>>,
                      columns |-> converted.val.columns,
                      data |-> ToRecords(converted.val)]),
             <<"read_excel">>, <<>>))))

---------------------------------------------------------------------------
(* ExcelReadTools.excel_read_all_sheets *)

\* `original_rows >= max_rows_per_sheet` as the truncation test
ExceedsLimitOffByOne(original_rows, max_rows_per_sheet) ==
    original_rows >= max_rows_per_sheet

\* `original_rows > max_rows_per_sheet`, tested before head() and for "truncated"
ExceedsLimit(original_rows, max_rows_per_sheet) ==
    original_rows > max_rows_per_sheet

\* the body of the per-sheet try and its except branch
ReadSheet(sheet_name, df, max_rows_per_sheet, include_empty_sheets) ==
    IF Empty(df) /\ ~include_empty_sheets
    THEN [summary |-> [sheet_name |-> sheet_name, status |-> <<"skipped (empty)">>,
                       rows |-> 0, columns |-> 0],
          stored |-> FALSE]
    ELSE With(_convert_dataframe(AsFrame(
                IF ExceedsLimit(Len(df.rows), max_rows_per_sheet)
                THEN DfHead(df, max_rows_per_sheet) ELSE df)), LAMBDA converted :
    IF converted.raised
    THEN [summary |-> [sheet_name |-> sheet_name,
                       status |-> <<"error: ", converted.exc.msg>>,
                       rows |-> 0, columns |-> 0],
          stored |-> FALSE]
    ELSE [summary |-> [sheet_name |-> sheet_name, status |-> <<"loaded">>,
                       rows |-> Len(converted.val.rows),
                       columns |-> Len(converted.val.columns),
                       original_rows |-> Len(df.rows)],
          stored |-> TRUE,
          data |-> [shape |-> <<Len(converted.val.rows), Len(converted.val.columns)>>,
                    columns |-> converted.val.columns,
                    data |-> ToRecords(converted.val),
                    truncated |-> ExceedsLimit(Len(df.rows), max_rows_per_sheet),
                    original_rows |-> Len(df.rows)]])

excel_read_all_sheets(w, file_path, max_rows_per_sheet, include_empty_sheets) ==
    With(_validate_file(file_path), LAMBDA path :
    IF path.raised THEN Out(Failure(path.exc), <<>>, <<>>)
    ELSE With(read_excel(w, None), LAMBDA all_sheets :
    IF all_sheets.raised THEN Out(Failure(all_sheets.exc), <<"read_excel">>, <<>>)
    ELSE With([k \in 1..Len(all_sheets.val.items) |->
                ReadSheet(all_sheets.val.items[k][1], all_sheets.val.items[k][2],
                          max_rows_per_sheet, include_empty_sheets)], LAMBDA each :
    Out(Success([file_path |-> file_path,
                 total_sheets |-> Len(all_sheets.val.items),
                 sheet_summary |-> [k \in 1..Len(each) |-> each[k].summary],
                 sheets_data |->
                    [n \in {each[k].summary.sheet_name :
                                k \in {h \in 1..Len(each) : each[h].stored}} |->
                        each[CHOOSE k \in 1..Len(each) : each[k].summary.sheet_name = n].data],
                 settings |-> [max_rows_per_sheet |-> max_rows_per_sheet,
                               include_empty_sheets |-> include_empty_sheets]]),
        <<"read_excel">>, <<>>))))

---------------------------------------------------------------------------
(* ExcelReadTools.excel_quick_overview *)

\* the body of the per-sheet try and its except branch
OverviewSheet(sheet_name, df, sample_rows) ==
    With(_convert_dataframe(AsFrame(IF ~Empty(df) THEN DfHead(df, sample_rows) ELSE df)),
         LAMBDA converted_sample :
    IF converted_sample.raised
    THEN [sheet_name |-> sheet_name, error |-> converted_sample.exc]
    ELSE [sheet_name |-> sheet_name,
          total_rows |-> Len(df.rows),
          total_columns |-> Len(df.columns),
          columns |-> df.columns,
          sample_data |-> ToRecords(converted_sample.val),
          is_empty |-> Empty(df),
          has_more_data |-> Len(df.rows) > sample_rows])

excel_quick_overview(w, file_path, sample_rows, statFails) ==
    With(_validate_file(file_path), LAMBDA path :
    IF path.raised THEN Out(Failure(path.exc), <<>>, <<>>)
    ELSE With(excel_read_info(w, file_path, statFails), LAMBDA info :
    IF ~info.result.success THEN info
    ELSE With(read_excel(w, None), LAMBDA all_sheets :
    IF all_sheets.raised
    THEN Out(Failure(all_sheets.exc), info.opened \o <<"read_excel">>, info.live)
    ELSE Out(Success([file_path |-> info.result.data.file_path,
                      file_size |-> info.result.data.file_size,
                      sheet_count |-> info.result.data.sheet_count,
                      sheet_names |-> info.result.data.sheet_names,
                      sheets_overview |->
                         [k \in 1..Len(all_sheets.val.items) |->
                             OverviewSheet(all_sheets.val.items[k][1],
                                           all_sheets.val.items[k][2], sample_rows)],
                      sample_settings |-> [sample_rows |-> sample_rows]]),
             info.opened \o <<"read_excel">>, info.live))))

---------------------------------------------------------------------------
(* ExcelReadTools._search_in_dataframe and excel_search *)

\* the cells of a frame in the order of the two loops: row by row, and in a
\* row column by column; <<row_idx, col_idx>>, both 0-based
CellOrder(df) ==
    [p \in 1..(Len(df.rows) * Len(df.columns)) |->
        <<(p - 1) \div Len(df.columns), (p - 1) % Len(df.columns)>>]

\* the test of the inner loop
Hit(value, search_term) ==
    ~IsNA(value) /\ Contains(Lower(Str(value)), Lower(search_term))

\* the dict appended for the cell at <<row_idx, col_idx>>, with row_idx + 1 as the row
MatchOfNoHeader(df, at, sheet_name) ==
    With(CellInfo(at[1] + 1, at[2] + 1,
                  Normalize(df.rows[at[1] + 1][at[2] + 1]), sheet_name, <<>>),
         LAMBDA cell_info :
    [raised |-> cell_info.raised,
     sheet_name |-> cell_info.sheet_name,
     address |-> cell_info.address,
     row |-> cell_info.row,
     column |-> cell_info.column,
     value |-> cell_info.value,
     column_name |-> df.columns[at[2] + 1]])

\* the dict appended for the cell at <<row_idx, col_idx>>
MatchOf(df, at, sheet_name) ==
    With(CellInfo(at[1] + 2, at[2] + 1,
                  Normalize(df.rows[at[1] + 1][at[2] + 1]), sheet_name, <<>>),
         LAMBDA cell_info :
    [raised |-> cell_info.raised,
     sheet_name |-> cell_info.sheet_name,
     address |-> cell_info.address,
     row |-> cell_info.row,
     column |-> cell_info.column,
     value |-> cell_info.value,
     column_name |-> df.columns[at[2] + 1]])

Unraised(m) ==
    [sheet_name |-> m.sheet_name, address |-> m.address, row |-> m.row,
     column |-> m.column, value |-> m.value, column_name |-> m.column_name]

_search_in_dataframe(df, search_term, sheet_name) ==
    LET IsHit(at) == Hit(df.rows[at[1] + 1][at[2] + 1], search_term)
    IN With(SelectSeq(CellOrder(df), IsHit), LAMBDA hits :
       IF \E h \in 1..Len(hits) : MatchOf(df, hits[h], sheet_name).raised
       THEN Fail("Invalid column index ", "")
       ELSE Ok([h \in 1..Len(hits) |-> Unraised(MatchOf(df, hits[h], sheet_name))]))

\* the results after the sheets names[1..n] were read and searched in turn; the
\* first sheet that fails ends the loop with its exception
RECURSIVE SearchSheets(_, _, _, _)
SearchSheets(w, names, n, search_term) ==
    IF n = 0 THEN [raised |-> FALSE, val |-> <<>>, reads |-> <<>>]
    ELSE With(SearchSheets(w, names, n - 1, search_term), LAMBDA before :
    IF before.raised THEN before
    ELSE With(read_excel(w, names[n]), LAMBDA df :
    IF df.raised
    THEN [raised |-> TRUE, exc |-> df.exc, reads |-> before.reads \o <<"read_excel">>]
    ELSE With(_search_in_dataframe(df.val.frame, search_term, names[n]), LAMBDA found :
    IF found.raised
    THEN [raised |-> TRUE, exc |-> found.exc, reads |-> before.reads \o <<"read_excel">>]
    ELSE [raised |-> FALSE, val |-> before.val \o found.val,
          reads |-> before.reads \o <<"read_excel">>])))

SearchData(search_term, results) ==
    [search_term |-> search_term, total_matches |-> Len(results), matches |-> results]

\* the branch of excel_search for one named sheet
SearchOne(w, search_term, sheet_name) ==
    With(read_excel(w, sheet_name), LAMBDA df :
    IF df.raised THEN Out(Failure(df.exc), <<"read_excel">>, <<>>)
    ELSE With(_search_in_dataframe(df.val.frame, search_term, sheet_name), LAMBDA one :
    IF one.raised THEN Out(Failure(one.exc), <<"read_excel">>, <<>>)
    ELSE Out(Success(SearchData(search_term, one.val)), <<"read_excel">>, <<>>)))

\* the branch of excel_search for every sheet of the workbook
SearchAll(w, search_term) ==
    With(ExcelFile(w), LAMBDA excel_file :
    IF excel_file.raised THEN Out(Failure(excel_file.exc), <<"ExcelFile">>, <<>>)
    ELSE With(SearchSheets(w, excel_file.val, Len(excel_file.val), search_term), LAMBDA all :
    IF all.raised
    THEN Out(Failure(all.exc), <<"ExcelFile">> \o all.reads, <<"ExcelFile">>)
    ELSE Out(Success(SearchData(search_term, all.val)),
             <<"ExcelFile">> \o all.reads, <<"ExcelFile">>)))

excel_search(w, file_path, search_term, sheet_name) ==
    With(_validate_file(file_path), LAMBDA path :
    IF path.raised THEN Out(Failure(path.exc), <<>>, <<>>)
    ELSE IF Truthy(sheet_name) THEN SearchOne(w, search_term, sheet_name)
    ELSE SearchAll(w, search_term))

---------------------------------------------------------------------------
(* ExcelReadMCPServer.call_tool *)

DefaultMaxRowsPerSheet == 1000
DefaultSampleRows == 5

\* arguments.get(key, default)
Get(arguments, key, default) ==
    IF key \in DOMAIN arguments THEN arguments[key] ELSE default

\* arguments[key] raised KeyError
KeyError(key) == Out(Failure(Exc("KeyError: ", key)), <<>>, <<>>)

\* the envelope call_tool serialises into its TextContent, by json.dumps
call_tool(w, name, arguments, statFails) ==
    IF name = "excel_read_info"
    THEN IF "file_path" \notin DOMAIN arguments THEN KeyError("file_path")
         ELSE excel_read_info(w, arguments["file_path"], statFails)
    ELSE IF name = "excel_read_range"
    THEN IF "file_path" \notin DOMAIN arguments THEN KeyError("file_path")
         ELSE excel_read_range(w, arguments["file_path"],
                               Get(arguments, "sheet_name", None),
                               Get(arguments, "range_spec", None))
    ELSE IF name = "excel_read_all_sheets"
    THEN IF "file_path" \notin DOMAIN arguments THEN KeyError("file_path")
         ELSE excel_read_all_sheets(w, arguments["file_path"],
                    Get(arguments, "max_rows_per_sheet", DefaultMaxRowsPerSheet),
                    Get(arguments, "include_empty_sheets", FALSE))
    ELSE IF name = "excel_quick_overview"
    THEN IF "file_path" \notin DOMAIN arguments THEN KeyError("file_path")
         ELSE excel_quick_overview(w, arguments["file_path"],
                    Get(arguments, "sample_rows", DefaultSampleRows), statFails)
    ELSE IF name = "excel_search"
    THEN IF "file_path" \notin DOMAIN arguments THEN KeyError("file_path")
         ELSE IF "search_term" \notin DOMAIN arguments THEN KeyError("search_term")
         ELSE excel_search(w, arguments["file_path"], arguments["search_term"],
                           Get(arguments, "sheet_name", None))
    ELSE Out(Failure(Exc("Unknown tool: ", name)), <<>>, <<>>)

---------------------------------------------------------------------------
(* Requests *)

GoodPath == [abs |-> TRUE, exists |-> TRUE, suffix |-> <<".", "x", "l", "s", "x">>]

\* the sheet_name arguments tried: omitted, empty, each sheet the workbook may
\* have, and a name no workbook has
SheetArgs == {None, ""} \cup {SheetNamePool[k] : k \in 1..(MaxSheets + 1)}

RangeArgs == {None, "A1:C10"}

SearchTerms == {<<>>, <<"A", "B">>, <<"b">>, <<"5", "0", "0">>, <<"3">>}

RowLimits == (0 - 1)..(MaxRows + 1)

ToolNames == {"excel_read_info", "excel_read_range", "excel_read_all_sheets",
              "excel_quick_overview", "excel_search"}

\* the arguments objects the transport is called with
ArgumentSets ==
    {<<>>,
     [file_path |-> GoodPath],
     [search_term |-> <<"b">>],
     [file_path |-> GoodPath, search_term |-> <<"b">>],
     [file_path |-> GoodPath, search_term |-> <<"b">>, sheet_name |-> "Sheet1",
      max_rows_per_sheet |-> 1, include_empty_sheets |-> TRUE, sample_rows |-> 1]}

---------------------------------------------------------------------------
(* The state machine: one action per operation *)

NoRequest == [op |-> "none"]
NoResult == [success |-> FALSE, error |-> Exc("", "")]
NoValue == [k |-> "unset"]
NoCell == [raised |-> TRUE, row |-> 0, column |-> 0, value |-> <<>>,
           sheet_name |-> "", address |-> <<>>, given |-> <<>>]

Return(r, out) ==
    /\ req' = r
    /\ res' = out.result
    /\ opened' = out.opened
    /\ live' = out.live
    /\ UNCHANGED <<wb, normIn, normOut, cellNew, cellOld>>

ReadInfo ==
    /\ req = NoRequest
    /\ \E p \in Paths, sf \in BOOLEAN :
        /\ (sf => p = GoodPath)
        /\ \E out \in {excel_read_info(wb, p, sf)} :
            Return([op |-> "excel_read_info", file_path |-> p, statFails |-> sf], out)

ReadRange ==
    /\ req = NoRequest
    /\ \E p \in Paths, sn \in SheetArgs, rs \in RangeArgs :
        /\ (p # GoodPath => sn = None /\ rs = None)
        /\ \E out \in {excel_read_range(wb, p, sn, rs)} :
            Return([op |-> "excel_read_range", file_path |-> p, sheet_name |-> sn,
                   range_spec |-> rs], out)

ReadAllSheets ==
    /\ req = NoRequest
    /\ \E p \in Paths, m \in RowLimits, inc \in BOOLEAN :
        /\ (p # GoodPath => m = 1 /\ ~inc)
        /\ \E out \in {excel_read_all_sheets(wb, p, m, inc)} :
            Return([op |-> "excel_read_all_sheets", file_path |-> p,
                   max_rows_per_sheet |-> m, include_empty_sheets |-> inc], out)

QuickOverview ==
    /\ req = NoRequest
    /\ \E p \in Paths, n \in 0..MaxRows, sf \in BOOLEAN :
        /\ (p # GoodPath => n = 1 /\ ~sf)
        /\ \E out \in {excel_quick_overview(wb, p, n, sf)} :
            Return([op |-> "excel_quick_overview", file_path |-> p, sample_rows |-> n,
                   statFails |-> sf], out)

Search ==
    /\ req = NoRequest
    /\ \E p \in Paths, t \in SearchTerms, sn \in SheetArgs :
        /\ (p # GoodPath => t = <<>> /\ sn = None)
        /\ \E out \in {excel_search(wb, p, t, sn)} :
            Return([op |-> "excel_search", file_path |-> p, search_term |-> t,
                   sheet_name |-> sn], out)

CallTool ==
    /\ req = NoRequest
    /\ \E name \in ToolNames \cup {"excel_write"}, a \in ArgumentSets :
        \E out \in {call_tool(wb, name, a, FALSE)} :
            Return([op |-> "call_tool", name |-> name, arguments |-> a], out)

\* the server has handed the response to its client and waits for the next call
Respond ==
    /\ req # NoRequest
    /\ req' = NoRequest
    /\ res' = NoResult
    /\ opened' = <<>>
    /\ live' = <<>>
    /\ UNCHANGED <<wb, normIn, normOut, cellNew, cellOld>>

Init ==
    /\ wb \in Workbooks
    /\ req = NoRequest
    /\ res = NoResult
    /\ opened = <<>>
    /\ live = <<>>
    /\ normIn = NoValue
    /\ normOut = Returned(<<>>)
    /\ cellNew = NoCell
    /\ cellOld = NoCell

Next == ReadInfo \/ ReadRange \/ ReadAllSheets \/ QuickOverview \/ Search \/ CallTool \/ Respond

Spec == Init /\ [][Next]_vars

---------------------------------------------------------------------------
(* _convert_datetime_to_string on its own *)

NormInputs ==
    {NaN, NaT, PyNone, PyList, IntVal(0), IntVal(30), IntVal(1207),
     Text(<<>>), Text(<<"A", "b">>), Text(<<"2", "0", "2", "4">>),
     TimeOfDay(10, 30, 0), DateLike(2024, 1, 5, TRUE), DateLike(2024, 1, 5, FALSE)}
    \cup {DateTime(y, mo, d, h, mi, sec, us) :
            y \in {1999, 2024}, mo \in {1, 12}, d \in {5, 31}, h \in {0, 23},
            mi \in {0, 59}, sec \in {0, 7}, us \in {0, 500000}}

IdleWorkbook ==
    [nsheets |-> 1, nrows |-> <<0>>, ncols |-> 1, fill |-> 0,
     fault |-> [kind |-> "none", sheet |-> 0]]

InitIdle ==
    /\ wb = IdleWorkbook
    /\ req = NoRequest
    /\ res = NoResult
    /\ opened = <<>>
    /\ live = <<>>
    /\ normIn = NoValue
    /\ normOut = Returned(<<>>)
    /\ cellNew = NoCell
    /\ cellOld = NoCell

ConvertValue ==
    \E v \in NormInputs :
        /\ normIn' = v
        /\ normOut' = ConvertOutcome(v)
        /\ UNCHANGED <<wb, req, res, opened, live, cellNew, cellOld>>

SpecNormalize == InitIdle /\ [][ConvertValue]_vars

---------------------------------------------------------------------------
(* CellInfo on its own *)

AddrColumns == (1..MaxAddrCol) \cup {26, 27, 52, 53, 702, 703, 18278, 18279}

MakeCell ==
    \E row \in 1..MaxAddrRow, column \in AddrColumns, given \in {<<>>, <<"Q", "7">>} :
        /\ (given # <<>> => row = 1 /\ column = 1)
        /\ cellOld' = cellNew
        /\ cellNew' = CellInfo(row, column, <<>>, "Sheet1", given)
        /\ UNCHANGED <<wb, req, res, opened, live, normIn, normOut>>

SpecAddress == InitIdle /\ [][MakeCell]_vars

---------------------------------------------------------------------------
(* Reading strings back *)

DigitValue(c) == (CHOOSE i \in 1..10 : Digits[i] = c) - 1

IsDigits(s) == \A i \in 1..Len(s) : s[i] \in Range(Digits)

\* the number a string of decimal digits denotes
RECURSIVE DecValue(_)
DecValue(s) ==
    IF Len(s) = 0 THEN 0
    ELSE 10 * DecValue(SubSeq(s, 1, Len(s) - 1)) + DigitValue(s[Len(s)])

LetterValue(c) == CHOOSE i \in 1..26 : Upper[i] = c

IsLetters(s) == \A i \in 1..Len(s) : s[i] \in Range(Upper)

\* the number a string of letters denotes in bijective base 26 (A = 1 .. Z = 26)
RECURSIVE Base26Value(_)
Base26Value(s) ==
    IF Len(s) = 0 THEN 0
    ELSE 26 * Base26Value(SubSeq(s, 1, Len(s) - 1)) + LetterValue(s[Len(s)])

\* s is "YYYY-MM-DD HH:MM:SS" for the date and time fields of v
IsStampOf(s, v) ==
    /\ Len(s) = 19
    /\ s[5] = "-" /\ s[8] = "-" /\ s[11] = " " /\ s[14] = ":" /\ s[17] = ":"
    /\ IsDigits(SubSeq(s, 1, 4)) /\ DecValue(SubSeq(s, 1, 4)) = v.y
    /\ IsDigits(SubSeq(s, 6, 7)) /\ DecValue(SubSeq(s, 6, 7)) = v.mo
    /\ IsDigits(SubSeq(s, 9, 10)) /\ DecValue(SubSeq(s, 9, 10)) = v.d
    /\ IsDigits(SubSeq(s, 12, 13)) /\ DecValue(SubSeq(s, 12, 13)) = v.h
    /\ IsDigits(SubSeq(s, 15, 16)) /\ DecValue(SubSeq(s, 15, 16)) = v.mi
    /\ IsDigits(SubSeq(s, 18, 19)) /\ DecValue(SubSeq(s, 18, 19)) = v.s

\* s is the letters of column followed by the digits of row
IsAddressOf(s, row, column) ==
    \E n \in 1..(Len(s) - 1) :
        /\ IsLetters(SubSeq(s, 1, n))
        /\ Base26Value(SubSeq(s, 1, n)) = column
        /\ IsDigits(SubSeq(s, n + 1, Len(s)))
        /\ s[n + 1] # "0"
        /\ DecValue(SubSeq(s, n + 1, Len(s))) = row

---------------------------------------------------------------------------
(* Properties *)

\* C9: _convert_datetime_to_string returns a string for every value and never
\* raises; None, NaN and NaT give ""; otherwise a datetime, a Timestamp or an
\* object with a callable date() and a working strftime gives
\* YYYY-MM-DD HH:MM:SS; every other value, and every value on which the test
\* or the formatting raised, gives str(value).
NormalizeIsTotalAndOrdered ==
    normIn # NoValue =>
        /\ ~normOut.raised
        /\ normIn.k \in {"none", "nan", "nat"} => normOut.ret = <<>>
        /\ normIn.k = "datetime" => IsStampOf(normOut.ret, normIn)
        /\ (normIn.k = "datelike" /\ normIn.strftime) => IsStampOf(normOut.ret, normIn)
        /\ (normIn.k = "datelike" /\ ~normIn.strftime) => normOut.ret = Str(normIn)
        /\ normIn.k \in {"str", "int", "time", "list"} => normOut.ret = Str(normIn)

\* C9 witness: a Timestamp with microseconds was formatted, without them
NormalizeWitness ==
    /\ normIn = DateTime(2024, 12, 31, 23, 59, 7, 500000)
    /\ normOut = Returned(<<"2", "0", "2", "4", "-", "1", "2", "-", "3", "1", " ",
                            "2", "3", ":", "5", "9", ":", "0", "7">>)

Computed(c) == ~c.raised /\ c.given = <<>>

\* C10: a CellInfo built without an address gets one for every row >= 1 and
\* column in 1..18278: the column in bijective base 26 followed by the row in
\* decimal without leading zeros; two such cells that differ in row or column
\* differ in address.
AddressIsBijectiveBase26 ==
    /\ \A c \in {cellNew, cellOld} :
        /\ (c.given = <<>> /\ c.row >= 1 /\ c.column \in 1..MaxColumnIndex) => ~c.raised
        /\ Computed(c) => IsAddressOf(c.address, c.row, c.column)
    /\ (Computed(cellNew) /\ Computed(cellOld)
            /\ <<cellNew.row, cellNew.column>> # <<cellOld.row, cellOld.column>>)
        => cellNew.address # cellOld.address

\* C10 witness: column 703 of row 10 was addressed AAA10, after a cell of column 26
AddressWitness ==
    /\ Computed(cellNew) /\ cellNew.row = 10 /\ cellNew.column = 703
    /\ cellNew.address = <<"A", "A", "A", "1", "0">>
    /\ Computed(cellOld) /\ cellOld.column = 26 /\ cellOld.address = <<"Z", "1">>

EngineOps == {"excel_read_info", "excel_read_range", "excel_read_all_sheets",
              "excel_quick_overview", "excel_search"}

IsEnvelope(r) ==
    \/ r.success = TRUE /\ DOMAIN r = {"success", "data"}
    \/ r.success = FALSE /\ DOMAIN r = {"success", "error"}

ValidPath(p) ==
    p.abs /\ p.exists
    /\ Lower(p.suffix) \in {<<".", "x", "l", "s", "x">>, <<".", "x", "l", "s">>,
                            <<".", "x", "l", "s", "m">>}

\* C1: every engine operation and the dispatch return an envelope: success=true
\* with data and no error, or success=false with error and no data; a failure
\* in the body (a rejected path, a file that cannot be opened, a sheet that
\* cannot be parsed when all are read, a failing stat) gives success=false; so
\* do an unknown tool name and a missing required argument.
EnvelopeAlways ==
    req.op # "none" =>
        /\ IsEnvelope(res)
        /\ (req.op \in EngineOps /\ ~ValidPath(req.file_path)) => ~res.success
        /\ (req.op \in EngineOps /\ wb.fault.kind = "corrupt" /\ ValidPath(req.file_path))
            => ~res.success
        /\ (req.op \in {"excel_read_info", "excel_quick_overview"} /\ req.statFails)
            => ~res.success
        /\ (req.op \in {"excel_read_all_sheets", "excel_quick_overview"}
                /\ wb.fault.kind = "parse") => ~res.success
        /\ (req.op = "call_tool" /\ req.name \notin ToolNames)
            => (~res.success /\ res.error.msg = "Unknown tool: ")
        /\ (req.op = "call_tool" /\ req.name \in ToolNames
                /\ "file_path" \notin DOMAIN req.arguments) => ~res.success
        /\ (req.op = "call_tool" /\ req.name = "excel_search"
                /\ "search_term" \notin DOMAIN req.arguments) => ~res.success

\* C1 witness: quick_overview got its metadata, then reading the sheets raised,
\* and the failure came back as an error envelope
EnvelopeWitness ==
    /\ req.op = "excel_quick_overview" /\ ValidPath(req.file_path) /\ ~req.statFails
    /\ wb.fault.kind = "parse"
    /\ res.success = FALSE /\ DOMAIN res = {"success", "error"}
    /\ opened = <<"load_workbook", "read_excel">>

---------------------------------------------------------------------------
(* Search *)

SheetIndex(name) == CHOOSE k \in 1..wb.nsheets : SheetNamePool[k] = name

HasSheet(name) == \E k \in 1..wb.nsheets : SheetNamePool[k] = name

\* the data cells of sheet k, all rows: <<i, j>>, 0-based
Cells(k) == (0..(wb.nrows[k] - 1)) \X (0..(wb.ncols - 1))

\* the cells of sheet k that the search term hits, by the test the code applies
HitCells(k, term) == {c \in Cells(k) : Hit(RawCell(wb, k, c[1], c[2]), term)}

\* the sheets a successful search went through, in scan order
Scanned == IF Truthy(req.sheet_name) THEN <<SheetIndex(req.sheet_name)>>
           ELSE [k \in 1..wb.nsheets |-> k]

\* <<sheet, row, column>> of a match, for comparing positions
Before(a, b) ==
    \/ SheetIndex(a.sheet_name) < SheetIndex(b.sheet_name)
    \/ SheetIndex(a.sheet_name) = SheetIndex(b.sheet_name) /\ a.row < b.row
    \/ SheetIndex(a.sheet_name) = SheetIndex(b.sheet_name) /\ a.row = b.row
        /\ a.column < b.column

SearchDone == req.op = "excel_search" /\ res.success

\* C3: each match of a successful search stands for a hit cell of a scanned
\* sheet at data row i, column j (0-based): row = i + 2, column = j + 1,
\* address = the address of (row, column), value = the normalised raw value,
\* column_name = the j-th column label; the list runs by sheet, then row, then
\* column, holds each hit cell once, none dropped, and total_matches is its length.
MatchesAreCellsInOrder ==
    SearchDone =>
        LET M == res.data.matches
        IN /\ res.data.total_matches = Len(M)
           /\ \A h \in 1..Len(M) :
                /\ HasSheet(M[h].sheet_name)
                /\ \E x \in 1..Len(Scanned) : Scanned[x] = SheetIndex(M[h].sheet_name)
                /\ <<M[h].row - 2, M[h].column - 1>>
                        \in HitCells(SheetIndex(M[h].sheet_name), req.search_term)
                /\ IsAddressOf(M[h].address, M[h].row, M[h].column)
                /\ M[h].value = Normalize(RawCell(wb, SheetIndex(M[h].sheet_name),
                                                  M[h].row - 2, M[h].column - 1))
                /\ M[h].column_name = ColumnPool[M[h].column]
           /\ \A g, h \in 1..Len(M) : g < h => Before(M[g], M[h])
           /\ \A x \in 1..Len(Scanned) : \A c \in HitCells(Scanned[x], req.search_term) :
                \E h \in 1..Len(M) :
                    /\ M[h].sheet_name = SheetNamePool[Scanned[x]]
                    /\ M[h].row = c[1] + 2 /\ M[h].column = c[2] + 1

\* C3 witness: a search over two sheets returned matches on both, on the second
\* data row and in the second column
MatchesWitness ==
    /\ SearchDone /\ ~Truthy(req.sheet_name) /\ wb.nsheets = 2
    /\ Len(res.data.matches) >= 4
    /\ \E g, h \in 1..Len(res.data.matches) :
        /\ res.data.matches[g].sheet_name = "Sheet1"
        /\ res.data.matches[h].sheet_name = "Sheet2"
        /\ res.data.matches[h].row = 3 /\ res.data.matches[h].column = 2
        /\ res.data.matches[h].address = <<"B", "3">>

\* C4: a cell of a scanned sheet is matched exactly when its raw value is not
\* missing and the lower-cased normalised string (the value the match returns)
\* contains the lower-cased term.
MatchIffNormalizedContains ==
    SearchDone =>
        \A x \in 1..Len(Scanned) : \A c \in Cells(Scanned[x]) :
            (\E h \in 1..Len(res.data.matches) :
                /\ res.data.matches[h].sheet_name = SheetNamePool[Scanned[x]]
                /\ res.data.matches[h].row = c[1] + 2
                /\ res.data.matches[h].column = c[2] + 1)
            <=> (/\ ~IsNA(RawCell(wb, Scanned[x], c[1], c[2]))
                 /\ Contains(Lower(Normalize(RawCell(wb, Scanned[x], c[1], c[2]))),
                             Lower(req.search_term)))

\* how many matches a successful search returned for sheet k
MatchCount(k) ==
    Cardinality({h \in 1..Len(res.data.matches) :
                    res.data.matches[h].sheet_name = SheetNamePool[k]})

SearchOnFile ==
    req.op = "excel_search" /\ ValidPath(req.file_path) /\ wb.fault.kind # "corrupt"

ParseFails(k) == wb.fault.kind = "parse" /\ wb.fault.sheet = k

\* C8 as claimed: any sheet_name that is passed, the empty string included,
\* restricts the search to that sheet and fails when the workbook has no such sheet.
SearchScopeAnyGivenName ==
    (SearchOnFile /\ req.sheet_name # None) =>
        /\ ~HasSheet(req.sheet_name) => ~res.success
        /\ res.success =>
            \A h \in 1..Len(res.data.matches) :
                res.data.matches[h].sheet_name = req.sheet_name

\* C8, amended: with a non-empty sheet_name the search covers that sheet alone,
\* all of its data rows, and fails when the workbook has no such sheet; with
\* sheet_name omitted or empty it covers every sheet, in workbook order, all
\* data rows of each.
SearchScope ==
    SearchOnFile =>
        IF req.sheet_name # None /\ req.sheet_name # ""
        THEN /\ ~HasSheet(req.sheet_name) => ~res.success
             /\ (HasSheet(req.sheet_name) /\ ~ParseFails(SheetIndex(req.sheet_name))) =>
                    /\ res.success
                    /\ \A h \in 1..Len(res.data.matches) :
                            res.data.matches[h].sheet_name = req.sheet_name
                    /\ MatchCount(SheetIndex(req.sheet_name))
                        = Cardinality(HitCells(SheetIndex(req.sheet_name), req.search_term))
        ELSE /\ res.success <=> wb.fault.kind # "parse"
             /\ res.success =>
                    /\ \A k \in 1..wb.nsheets :
                            MatchCount(k) = Cardinality(HitCells(k, req.search_term))
                    /\ \A g, h \in 1..Len(res.data.matches) :
                            g < h => SheetIndex(res.data.matches[g].sheet_name)
                                        <= SheetIndex(res.data.matches[h].sheet_name)

\* C8 witness: a search of Sheet2 alone, in a workbook whose Sheet1 has hits
\* too, returned the hits of Sheet2, its last data row included
SearchScopeWitness ==
    /\ SearchOnFile /\ req.sheet_name = "Sheet2" /\ res.success
    /\ wb.nsheets = 2 /\ wb.nrows[2] = MaxRows
    /\ HitCells(1, req.search_term) # {}
    /\ \E h \in 1..Len(res.data.matches) : res.data.matches[h].row = MaxRows + 1
    /\ \A h \in 1..Len(res.data.matches) : res.data.matches[h].sheet_name = "Sheet2"

---------------------------------------------------------------------------
(* Reading all sheets *)

ReadAllOnFile ==
    req.op = "excel_read_all_sheets" /\ ValidPath(req.file_path)
    /\ wb.fault.kind # "corrupt"

\* the rows of sheet k that are left to convert under the request's row limit
RowsKept(k) ==
    IF wb.nrows[k] > req.max_rows_per_sheet
    THEN Len(DfHead(Frame(wb, k), req.max_rows_per_sheet).rows)
    ELSE wb.nrows[k]

\* sheet k cannot be loaded, or its conversion raises
SheetFails(k) ==
    \/ ParseFails(k)
    \/ wb.fault.kind = "convert" /\ wb.fault.sheet = k /\ RowsKept(k) > 0

\* C5: when one sheet of a workbook fails to load or to process and another
\* does not, read_all_sheets returns success=true, the summary entry of the
\* failing sheet has a status starting with "error:", and every other sheet
\* that is not skipped as empty has its data in sheets_data.
SheetFailureIsolated ==
    (ReadAllOnFile /\ wb.nsheets >= 2) =>
        \A k \in 1..wb.nsheets :
            SheetFails(k) =>
                /\ res.success
                /\ res.data.sheet_summary[k].status[1] = "error: "
                /\ \A h \in (1..wb.nsheets) \ {k} :
                    (wb.nrows[h] > 0 \/ req.include_empty_sheets)
                        => SheetNamePool[h] \in DOMAIN res.data.sheets_data

\* C6: when an operation has returned, nothing it opened is still open.
HandlesReleased == req.op # "none" => live = <<>>

\* the data returned for sheet k is its first `count` data rows, normalised, in order
IsHeadOf(data, k, count) ==
    /\ Len(data) = count
    /\ \A i \in 1..Len(data) :
        /\ DOMAIN data[i] = {ColumnPool[j] : j \in 1..wb.ncols}
        /\ \A j \in 1..wb.ncols :
            data[i][ColumnPool[j]] = Normalize(RawCell(wb, k, i - 1, j - 1))

Loaded(k) == res.data.sheet_summary[k].status = <<"loaded">>

TruncationOf(k) ==
    LET n == wb.nrows[k]
        m == req.max_rows_per_sheet
        d == res.data.sheets_data[SheetNamePool[k]]
    IN /\ d.original_rows = n
       /\ res.data.sheet_summary[k].original_rows = n
       /\ res.data.sheet_summary[k].rows = Len(d.data)
       /\ d.shape[1] = Len(d.data)
       /\ IF n > m
          THEN d.truncated /\ IsHeadOf(d.data, k, Cardinality(1..m))
          ELSE ~d.truncated /\ IsHeadOf(d.data, k, n)

\* C7 as claimed: for every max_rows_per_sheet m, negative ones included, a
\* loaded sheet of n rows comes back as its first m rows with truncated=true
\* when n > m, and whole with truncated=false otherwise; original_rows = n and
\* the summary's rows is the number of rows returned.
TruncationAnyLimit ==
    (req.op = "excel_read_all_sheets" /\ res.success) =>
        \A k \in 1..wb.nsheets : Loaded(k) => TruncationOf(k)

\* C7, amended: the same for every max_rows_per_sheet m >= 0.
TruncationNonNegativeLimit ==
    (req.op = "excel_read_all_sheets" /\ res.success /\ req.max_rows_per_sheet >= 0) =>
        \A k \in 1..wb.nsheets : Loaded(k) => TruncationOf(k)

\* C7 witness: with a limit of 1, a sheet of MaxRows rows came back as its
\* first row, truncated, next to a sheet that fits the limit whole
TruncationWitness ==
    /\ req.op = "excel_read_all_sheets" /\ res.success /\ req.max_rows_per_sheet = 1
    /\ wb.nsheets = 2 /\ wb.nrows[1] = MaxRows /\ wb.nrows[2] = 1
    /\ Loaded(1) /\ Loaded(2)
    /\ res.data.sheets_data["Sheet1"].truncated
    /\ Len(res.data.sheets_data["Sheet1"].data) = 1
    /\ res.data.sheets_data["Sheet1"].original_rows = MaxRows
    /\ ~res.data.sheets_data["Sheet2"].truncated


---------------------------------------------------------------------------
(* Reading one sheet *)

ReadRangeOnFile ==
    req.op = "excel_read_range" /\ ValidPath(req.file_path)
    /\ wb.fault.kind # "corrupt"

\* the sheet a read_range request is about: the named one, or the first
Target == IF req.sheet_name = None THEN 1 ELSE SheetIndex(req.sheet_name)

\* sheet k cannot be loaded on its own, or its conversion raises
RangeFails(k) ==
    \/ ParseFails(k)
    \/ wb.fault.kind = "convert" /\ wb.fault.sheet = k /\ wb.nrows[k] > 0

\* C11: read_range on a sheet that can be read (the named sheet, or the
\* workbook's first sheet when sheet_name is omitted) succeeds with all data
\* rows of that sheet and of no other, normalised and in order, under their
\* column labels; the payload's sheet_name is the name of that sheet; and the
\* result is the one the same request gives without a range_spec.
ReadRangeOneSheet ==
    (ReadRangeOnFile /\ (req.sheet_name = None \/ HasSheet(req.sheet_name))) =>
        /\ ~RangeFails(Target) =>
            /\ res.success
            /\ res.data.sheet_name = SheetNamePool[Target]
            /\ IsHeadOf(res.data.data, Target, wb.nrows[Target])
            /\ res.data.shape = <<wb.nrows[Target], wb.ncols>>
            /\ res.data.columns = [j \in 1..wb.ncols |-> ColumnPool[j]]
        /\ res = excel_read_range(wb, req.file_path, req.sheet_name, None).result


---------------------------------------------------------------------------
(* The summary of reading all sheets *)

IsStatus(st) ==
    \/ st = <<"loaded">>
    \/ st = <<"skipped (empty)">>
    \/ Len(st) = 2 /\ st[1] = "error: "

\* C12: in a successful read_all_sheets result the k-th sheet_summary entry is
\* the entry of the workbook's k-th sheet and there are no others; each status
\* is loaded, skipped (empty) or error: <reason>; the keys of sheets_data are
\* the sheets whose status is loaded; total_sheets is the number of entries;
\* and a sheet without data rows is skipped (empty) when include_empty_sheets
\* is false, and loaded with 0 rows when it is true.
SummaryInvariants ==
    (req.op = "excel_read_all_sheets" /\ res.success) =>
        LET S == res.data.sheet_summary
        IN /\ Len(S) = wb.nsheets
           /\ \A k \in 1..wb.nsheets :
                /\ S[k].sheet_name = SheetNamePool[k]
                /\ IsStatus(S[k].status)
                /\ wb.nrows[k] = 0 =>
                    IF req.include_empty_sheets
                    THEN /\ Loaded(k) /\ S[k].rows = 0
                         /\ res.data.sheets_data[SheetNamePool[k]].data = <<>>
                    ELSE S[k].status = <<"skipped (empty)">>
           /\ DOMAIN res.data.sheets_data
                = {SheetNamePool[k] : k \in {h \in 1..wb.nsheets : Loaded(h)}}
           /\ res.data.total_sheets = Len(S)

\* C12 witness: of two sheets the first, without data rows, was skipped and
\* the second, whose conversion raised, got an error status; no data was kept
SummaryWitness ==
    /\ req.op = "excel_read_all_sheets" /\ res.success /\ ~req.include_empty_sheets
    /\ wb.nsheets = 2 /\ wb.nrows[1] = 0 /\ wb.nrows[2] = MaxRows
    /\ wb.fault = [kind |-> "convert", sheet |-> 2]
    /\ res.data.sheet_summary[1].status = <<"skipped (empty)">>
    /\ res.data.sheet_summary[2].status[1] = "error: "
    /\ res.data.total_sheets = 2
    /\ DOMAIN res.data.sheets_data = {}

====
